---- MODULE Spec2Model ----
(***************************************************************************)
(* WebRAG Assistant: the RAG pipeline (rag_pipeline.py), the crawler       *)
(* (crawler.py), the vector store wrapper (vector_store.py) and the        *)
(* context formatter / answer generator (llm_integration.py).              *)
(*                                                                         *)
(* The external collaborators (FireCrawl, ChromaDB, the embedding model,   *)
(* the Groq completion service) are the environment: every call to one of  *)
(* them may raise, and what it returns is drawn from small sets.           *)
(***************************************************************************)
EXTENDS Integers, Sequences, FiniteSets, TLC

VARIABLES
    initialized,   \* RAGPipeline.initialized
    website_url,   \* RAGPipeline.website_url
    collection,    \* VectorStore.collection: the selected collection's name, or None
    client,        \* the persistent ChromaDB index: collection name -> stored records
    last           \* the last call made from outside: its arguments, outcome and external calls

vars == <<initialized, website_url, collection, client, last>>

\* Python's None, for each place that holds one
NoUrl == [scheme |-> "None", netloc |-> <<>>, path |-> "None", query |-> "None"]
NoCollection == <<"None">>
NoContext == [none |-> TRUE, value |-> <<>>]
SomeContext(results) == [none |-> FALSE, value |-> results]

Min(a, b) == IF a <= b THEN a ELSE b

Range(s) == {s[i] : i \in DOMAIN s}

(***************************************************************************)
(* Bounds of the model.                                                    *)
(***************************************************************************)
\* the longest list of links the site-mapping call returns
MaxLinks == 21
\* link lists up to this length are explored with every subset of failing pages
ShortLinks == 2

(***************************************************************************)
(* config.py                                                               *)
(***************************************************************************)
MAX_PAGES_TO_CRAWL == 20
TOP_K_RESULTS == 8
\* similarities and distances are counted in tenths: 0.5 is 5
SIMILARITY_THRESHOLD == 5
\* 1.0 in tenths
One == 10

(***************************************************************************)
(* URLs.  A URL is modelled by the parts urlparse splits it into; the      *)
(* netloc is a sequence of characters, kept exactly as written.            *)
(***************************************************************************)
UrlWithQuery(scheme, netloc, path, query) ==
    [scheme |-> scheme, netloc |-> netloc, path |-> path, query |-> query]

\* a URL without a query string
Url(scheme, netloc, path) == UrlWithQuery(scheme, netloc, path, "")

HostLower == <<"a", ".", "c">>
HostUpper == <<"A", ".", "c">>
HostOther == <<"b", ".", "c">>

\* the paths of the modelled web
Paths == {"/", "/p", "/q", "/e"}

(***************************************************************************)
(* The crawl service (FireCrawl).  ScrapeResult is what scrape_url returns *)
(* for a page when it does not raise; whether a call raises is the         *)
(* environment's choice, made per call.                                    *)
(***************************************************************************)
Markdown(url) ==
    [text |-> <<url.netloc, url.path>>,
     n |-> CASE url.path = "/" -> 2
             [] url.path = "/p" -> 1
             [] url.path = "/q" -> 2
             [] OTHER -> 0]

ScrapeResult(url) ==
    [has_markdown |-> url.path # "/e",
     markdown |-> Markdown(url),
     has_metadata |-> url.path # "/q",
     has_title |-> url.path \in {"/", "/e"},
     title |-> IF url.path = "/" THEN "Home" ELSE "Empty"]

\* RecursiveCharacterTextSplitter.split_text: the chunks of one page's text, in order
SplitText(markdown) == [i \in 1..markdown.n |-> <<markdown.text, i>>]

\* one entry of the record of external calls an operation made: the call, what
\* it was given, whether it returned, and what it returned when that matters
Call(fn, arg, ok) == [fn |-> fn, arg |-> arg, ok |-> ok, ret |-> <<>>]
Returned(fn, arg, ret) == [fn |-> fn, arg |-> arg, ok |-> TRUE, ret |-> ret]

\* the pages of the site of base_url, as the site-mapping call may list them
SitePage(base_url, j) ==
    Url(base_url.scheme, base_url.netloc,
        CASE j % 4 = 1 -> "/p"
          [] j % 4 = 2 -> "/q"
          [] j % 4 = 3 -> base_url.path
          [] OTHER -> "/e")

\* the pages short link lists are drawn from: two pages and the seed URL itself
SitePages(base_url) == { SitePage(base_url, j) : j \in 1..3 }

RECURSIVE SeqsUpTo(_, _)
SeqsUpTo(S, n) ==
    IF n = 0 THEN { <<>> }
    ELSE LET shorter == SeqsUpTo(S, n - 1)
         IN shorter \cup { Append(s, x) : s \in { t \in shorter : Len(t) = n - 1 }, x \in S }

\* the link lists the site-mapping call returns: every short list (the seed
\* URL and repeated URLs included) and long lists around the page bound
LongLinks(base_url) ==
    { [j \in 1..n |-> SitePage(base_url, j)] : n \in (MAX_PAGES_TO_CRAWL - 1)..MaxLinks }

LinkLists(base_url) == SeqsUpTo(SitePages(base_url), ShortLinks) \cup LongLinks(base_url)

\* the positions of a link list whose fetch may raise
FailPositions(links) ==
    IF Len(links) <= ShortLinks THEN 1..Len(links)
    ELSE {1, 2, MAX_PAGES_TO_CRAWL - 1}

CrawlEnv(seed, map, links, page_fails) ==
    [seed |-> seed, map |-> map, links |-> links, page_fails |-> page_fails]

\* what the crawl service does during one crawl of base_url
CrawlEnvs(base_url) ==
    { CrawlEnv("raise", "ok", <<>>, {}),
      CrawlEnv("ok", "raise", <<>>, {}),
      CrawlEnv("ok", "nolinks", <<>>, {}) }
    \cup UNION { { CrawlEnv("ok", "ok", l, f) : f \in SUBSET FailPositions(l) } : l \in LinkLists(base_url) }

(***************************************************************************)
(* crawler.py: WebsiteCrawler.crawl_website                                *)
(***************************************************************************)
\* lines 92-117: the documents of the main URL
SeedDocs(base_url, scrape_result) ==
    IF scrape_result.has_markdown /\ scrape_result.markdown.n > 0
    THEN LET title == IF scrape_result.has_metadata /\ scrape_result.has_title
                      THEN scrape_result.title ELSE "Untitled"
             chunks == SplitText(scrape_result.markdown)
         IN [i \in 1..Len(chunks) |->
                [page_content |-> chunks[i],
                 metadata |-> [source |-> base_url, title |-> title,
                               chunk_index |-> i - 1, page_index |-> 0]]]
    ELSE <<>>

\* lines 142-163: the documents of one additional page; page_index is enumerate's index
PageDocs(url, page_result, page_index) ==
    IF page_result.has_markdown /\ page_result.markdown.n > 0
    THEN LET page_title == IF page_result.has_metadata /\ page_result.has_title
                           THEN page_result.title ELSE "Untitled"
             page_chunks == SplitText(page_result.markdown)
         IN [i \in 1..Len(page_chunks) |->
                [page_content |-> page_chunks[i],
                 metadata |-> [source |-> url, title |-> page_title,
                               chunk_index |-> i - 1, page_index |-> page_index + 1]]]
    ELSE <<>>

\* variant: the slice does not count the seed page
PagesWithoutSeed(additional_urls) ==
    SubSeq(additional_urls, 1, Min(Len(additional_urls), MAX_PAGES_TO_CRAWL))

\* line 133: the slice of the mapped URLs the loop visits
PagesToVisit(additional_urls) ==
    SubSeq(additional_urls, 1, Min(Len(additional_urls), MAX_PAGES_TO_CRAWL - 1))

\* variant: the loop ends at the first page whose scrape raises
RECURSIVE CrawlPagesAbort(_, _, _, _)
CrawlPagesAbort(urls, j, env, acc) ==
    IF j > Len(urls) THEN acc
    ELSE IF j \in env.page_fails
         THEN [acc EXCEPT !.calls = Append(@, Call("scrape_url", urls[j], FALSE))]
         ELSE CrawlPagesAbort(urls, j + 1, env,
                  [documents |-> acc.documents \o PageDocs(urls[j], ScrapeResult(urls[j]), j - 1),
                   calls |-> Append(acc.calls, Call("scrape_url", urls[j], TRUE))])

\* lines 133-169: the loop over the additional URLs; j - 1 is enumerate's page_index
RECURSIVE CrawlPages(_, _, _, _)
CrawlPages(urls, j, env, acc) ==
    IF j > Len(urls) THEN acc
    ELSE IF j \in env.page_fails
         THEN CrawlPages(urls, j + 1, env,
                  [acc EXCEPT !.calls = Append(@, Call("scrape_url", urls[j], FALSE))])
         ELSE CrawlPages(urls, j + 1, env,
                  [documents |-> acc.documents \o PageDocs(urls[j], ScrapeResult(urls[j]), j - 1),
                   calls |-> Append(acc.calls, Call("scrape_url", urls[j], TRUE))])

\* variant: the seed failure is raised to the caller
SeedFailedRaises(base_url) ==
    [documents |-> <<>>, raised |-> TRUE,
     calls |-> <<Call("scrape_url", base_url, FALSE)>>]

\* lines 177-181: the scrape of the main URL raised
SeedFailed(base_url) ==
    [documents |-> <<>>, raised |-> FALSE,
     calls |-> <<Call("scrape_url", base_url, FALSE)>>]

\* variant: a mapping failure is handled like a seed failure
MappingFailedDropsSeed(base_url, documents) ==
    [documents |-> <<>>, raised |-> FALSE,
     calls |-> <<Call("scrape_url", base_url, TRUE), Call("map_url", base_url, FALSE)>>]

\* lines 170-175: map_url raised; the documents of the main URL are returned
MappingFailed(base_url, documents) ==
    [documents |-> documents, raised |-> FALSE,
     calls |-> <<Call("scrape_url", base_url, TRUE), Call("map_url", base_url, FALSE)>>]

\* lines 79-181: [documents, raised, calls]
CrawlWebsite(base_url, env) ==
    IF env.seed = "raise"
    THEN SeedFailed(base_url)
    ELSE LET documents == SeedDocs(base_url, ScrapeResult(base_url))
         IN IF env.map = "raise"
            THEN MappingFailed(base_url, documents)
            ELSE LET additional_urls == IF env.map = "nolinks" THEN <<>> ELSE env.links
                     done == CrawlPages(PagesToVisit(additional_urls), 1, env,
                                 [documents |-> documents,
                                  calls |-> <<Call("scrape_url", base_url, TRUE),
                                              Returned("map_url", base_url, additional_urls)>>])
                 IN [documents |-> done.documents, raised |-> FALSE, calls |-> done.calls]

(***************************************************************************)
(* Sorting, as Python's sorted() and the index's ranking do it: stable,    *)
(* ascending in the key.                                                   *)
(***************************************************************************)
InsertByKey(sorted, x) ==
    LET n == Cardinality({ i \in 1..Len(sorted) : sorted[i].key <= x.key })
    IN SubSeq(sorted, 1, n) \o <<x>> \o SubSeq(sorted, n + 1, Len(sorted))

RECURSIVE SortFrom(_, _, _)
SortFrom(s, i, acc) ==
    IF i > Len(s) THEN acc ELSE SortFrom(s, i + 1, InsertByKey(acc, s[i]))

StableSortByKey(s) == SortFrom(s, 1, <<>>)

(***************************************************************************)
(* The vector index (ChromaDB PersistentClient) and the embedding model.   *)
(***************************************************************************)
\* SentenceTransformer.encode: deterministic for a given text
Encode(text) == <<"vec", text>>

\* ids as embed_documents formats them: f"doc_{i}"
DocId(i) == <<"doc", i>>

\* Collection.add: a record whose id the collection already holds is ignored
\* (the persistent client logs it and keeps the stored record)
RECURSIVE ClientAdd(_, _, _)
ClientAdd(records, batch, i) ==
    IF i > Len(batch) THEN records
    ELSE IF \E r \in Range(records) : r.id = batch[i].id
         THEN ClientAdd(records, batch, i + 1)
         ELSE ClientAdd(Append(records, batch[i]), batch, i + 1)

\* cosine distance of a stored record to the query, in tenths; the geometry of
\* the embedding space is the environment's (one of a few profiles)
DistTable == <<1, 3, 5, 5, 6, 12, 0>>

Distance(profile, record) ==
    IF profile = 0 THEN 8
    ELSE DistTable[((3 * record.metadata.page_index + record.metadata.chunk_index + profile) % 7) + 1]

\* Collection.query: the n_results nearest records, nearest first, as parallel
\* lists wrapped in one list per query embedding
ClientQuery(records, profile, n_results) ==
    LET keyed == [i \in 1..Len(records) |-> [key |-> Distance(profile, records[i]), rec |-> records[i]]]
        ranked == StableSortByKey(keyed)
        top == SubSeq(ranked, 1, Min(n_results, Len(ranked)))
    IN [documents |-> << [i \in 1..Len(top) |-> top[i].rec.document] >>,
        metadatas |-> << [i \in 1..Len(top) |-> top[i].rec.metadata] >>,
        distances |-> << [i \in 1..Len(top) |-> top[i].key] >>]

(***************************************************************************)
(* vector_store.py: VectorStore.  The store is [collection, client].       *)
(***************************************************************************)
Store(coll, cl) == [collection |-> coll, client |-> cl]

NotInitializedError == "Collection not initialized. Call create_collection first."

\* Client.create_collection: a new, empty collection; a name already in use is refused
ClientCreateCollection(cl, name) ==
    IF name \in DOMAIN cl
    THEN [client |-> cl, raised |-> TRUE, error |-> "Collection already exists"]
    ELSE [client |-> [n \in DOMAIN cl \cup {name} |-> IF n = name THEN <<>> ELSE cl[n]],
          raised |-> FALSE, error |-> ""]

\* variant: the existing names are not consulted
AlwaysCreate(collection_names, website_name) == FALSE

\* line 80
CollectionExists(collection_names, website_name) == website_name \in collection_names

\* lines 75-89: [store, raised, error, calls]
CreateCollection(store, website_name, fault) ==
    IF fault = "list_collections"
    THEN [store |-> store, raised |-> TRUE, error |-> "list_collections failed",
          calls |-> <<Call("list_collections", website_name, FALSE)>>]
    ELSE LET collection_names == DOMAIN store.client
             listed == <<Call("list_collections", website_name, TRUE)>>
         IN IF CollectionExists(collection_names, website_name)
            THEN IF fault = "open"
                 THEN [store |-> store, raised |-> TRUE, error |-> "get_collection failed",
                       calls |-> Append(listed, Call("get_collection", website_name, FALSE))]
                 ELSE [store |-> Store(website_name, store.client), raised |-> FALSE, error |-> "",
                       calls |-> Append(listed, Call("get_collection", website_name, TRUE))]
            ELSE IF fault = "open"
                 THEN [store |-> store, raised |-> TRUE, error |-> "create_collection failed",
                       calls |-> Append(listed, Call("create_collection", website_name, FALSE))]
                 ELSE LET made == ClientCreateCollection(store.client, website_name)
                      IN IF made.raised
                         THEN [store |-> store, raised |-> TRUE, error |-> made.error,
                               calls |-> Append(listed, Call("create_collection", website_name, FALSE))]
                         ELSE [store |-> Store(website_name, made.client),
                               raised |-> FALSE, error |-> "",
                               calls |-> Append(listed, Call("create_collection", website_name, TRUE))]

\* batch size of embed_documents
batch_size == 100

\* variant: the add of the first batch is made before the length is looked at
RECURSIVE AddBatchesAtLeastOnce(_, _, _, _)
AddBatchesAtLeastOnce(records, rows, i, calls) ==
    LET end_idx == Min(i + batch_size - 1, Len(rows))
        added == ClientAdd(records, SubSeq(rows, i, end_idx), 1)
        called == Append(calls, Call("add", end_idx - i + 1, TRUE))
    IN IF end_idx >= Len(rows) THEN [records |-> added, calls |-> called]
       ELSE AddBatchesAtLeastOnce(added, rows, end_idx + 1, called)

\* lines 126-133: one Collection.add per batch of batch_size records
RECURSIVE AddBatches(_, _, _, _)
AddBatches(records, rows, i, calls) ==
    IF i > Len(rows) THEN [records |-> records, calls |-> calls]
    ELSE LET end_idx == Min(i + batch_size - 1, Len(rows))
         IN AddBatches(ClientAdd(records, SubSeq(rows, i, end_idx), 1), rows, end_idx + 1,
                       Append(calls, Call("add", end_idx - i + 1, TRUE)))

\* variant: no check; the texts are encoded and add is called on None
EmbedCrashesOnNone(store, documents) ==
    [store |-> store, raised |-> TRUE, error |-> "'NoneType' object has no attribute 'add'",
     calls |-> <<Call("encode", Len(documents), TRUE)>>]

\* lines 109-110
EmbedNotInitialized(store, documents) ==
    [store |-> store, raised |-> TRUE, error |-> NotInitializedError, calls |-> <<>>]

\* lines 108-135: [store, raised, error, calls]
EmbedDocuments(store, documents, fault) ==
    IF store.collection = NoCollection
    THEN EmbedNotInitialized(store, documents)
    ELSE IF fault = "encode"
    THEN [store |-> store, raised |-> TRUE, error |-> "encode failed",
          calls |-> <<Call("encode", Len(documents), FALSE)>>]
    ELSE LET rows == [i \in 1..Len(documents) |->
                         [id |-> DocId(i - 1),
                          embedding |-> Encode(documents[i].page_content),
                          metadata |-> documents[i].metadata,
                          document |-> documents[i].page_content]]
             encoded == <<Call("encode", Len(documents), TRUE)>>
         IN IF fault = "add" /\ Len(rows) > 0
            THEN [store |-> store, raised |-> TRUE, error |-> "add failed",
                  calls |-> Append(encoded, Call("add", Min(batch_size, Len(rows)), FALSE))]
            ELSE LET added == AddBatches(store.client[store.collection], rows, 1, encoded)
                 IN [store |-> Store(store.collection,
                                     [store.client EXCEPT ![store.collection] = added.records]),
                     raised |-> FALSE, error |-> "", calls |-> added.calls]

\* variant: the results below the similarity threshold are left out
SearchAboveThreshold(store, query, k, env) ==
    IF store.collection = NoCollection
    THEN [documents |-> <<>>, raised |-> TRUE, error |-> NotInitializedError, calls |-> <<>>]
    ELSE IF env.fault = "encode"
    THEN [documents |-> <<>>, raised |-> TRUE, error |-> "encode failed",
          calls |-> <<Call("encode", query, FALSE)>>]
    ELSE IF env.fault = "query"
    THEN [documents |-> <<>>, raised |-> TRUE, error |-> "query failed",
          calls |-> <<Call("encode", query, TRUE), Call("query", k, FALSE)>>]
    ELSE LET results == ClientQuery(store.client[store.collection], env.profile, k)
             documents == [i \in 1..Len(results.documents[1]) |->
                              [page_content |-> results.documents[1][i],
                               metadata |-> results.metadatas[1][i],
                               similarity |-> One - results.distances[1][i]]]
         IN [documents |-> SelectSeq(documents,
                                     LAMBDA d : d.similarity >= SIMILARITY_THRESHOLD),
             raised |-> FALSE, error |-> "",
             calls |-> <<Call("encode", query, TRUE), Returned("query", k, results)>>]

\* lines 157-180: [documents, raised, error, calls]
Search(store, query, k, env) ==
    IF store.collection = NoCollection
    THEN \* lines 158-159
         [documents |-> <<>>, raised |-> TRUE, error |-> NotInitializedError, calls |-> <<>>]
    ELSE IF env.fault = "encode"
    THEN [documents |-> <<>>, raised |-> TRUE, error |-> "encode failed",
          calls |-> <<Call("encode", query, FALSE)>>]
    ELSE IF env.fault = "query"
    THEN [documents |-> <<>>, raised |-> TRUE, error |-> "query failed",
          calls |-> <<Call("encode", query, TRUE), Call("query", k, FALSE)>>]
    ELSE LET results == ClientQuery(store.client[store.collection], env.profile, k)
         IN [documents |-> [i \in 1..Len(results.documents[1]) |->
                               [page_content |-> results.documents[1][i],
                                metadata |-> results.metadatas[1][i],
                                similarity |-> One - results.distances[1][i]]],
             raised |-> FALSE, error |-> "",
             calls |-> <<Call("encode", query, TRUE), Returned("query", k, results)>>]

(***************************************************************************)
(* Strings built at run time: a literal text and the values formatted      *)
(* into it, in order.                                                      *)
(***************************************************************************)
Str(text, parts) == [text |-> text, parts |-> parts]

(***************************************************************************)
(* llm_integration.py: LLMIntegration                                      *)
(***************************************************************************)
\* line 83
NoRelevantInformation == Str("No relevant information found.", <<>>)

\* line 99: one rendered document
DocumentBlock(i, doc) ==
    [document |-> i + 1, title |-> doc.metadata.title,
     source |-> doc.metadata.source, content |-> doc.page_content]

\* variant: a result exactly at the threshold is dropped
FilterAboveThreshold(results) ==
    SelectSeq(results, LAMBDA r : r.similarity > SIMILARITY_THRESHOLD)

\* line 80
FilterByThreshold(results) ==
    SelectSeq(results, LAMBDA r : r.similarity >= SIMILARITY_THRESHOLD)

\* variant: sorted without reverse=True
SortAscending(filtered_results) ==
    LET keyed == [i \in 1..Len(filtered_results) |->
                     [key |-> filtered_results[i].similarity, doc |-> filtered_results[i]]]
        sorted == StableSortByKey(keyed)
    IN [i \in 1..Len(sorted) |-> sorted[i].doc]

\* line 86: sorted(..., key=similarity, reverse=True) keeps equal elements in their order
SortBySimilarity(filtered_results) ==
    LET keyed == [i \in 1..Len(filtered_results) |->
                     [key |-> 0 - filtered_results[i].similarity, doc |-> filtered_results[i]]]
        sorted == StableSortByKey(keyed)
    IN [i \in 1..Len(sorted) |-> sorted[i].doc]

\* line 89
TopResults(sorted_results) ==
    SubSeq(sorted_results, 1, Min(TOP_K_RESULTS, Len(sorted_results)))

\* lines 79-101
FormatContext(results) ==
    LET filtered_results == FilterByThreshold(results)
    IN IF filtered_results = <<>>
       THEN NoRelevantInformation
       ELSE LET top_results == TopResults(SortBySimilarity(filtered_results))
            IN Str("\n", [i \in 1..Len(top_results) |-> DocumentBlock(i - 1, top_results[i])])

\* lines 123-134
Prompt(query, context) == Str("You are an AI assistant ...", <<context, query>>)

\* lines 120-145: [answer, raised, error, calls]; the completion service may raise, or
\* return a response with no choice in it
GetAnswer(query, context, env) ==
    IF env.fault = "complete"
    THEN [answer |-> Str("", <<>>), raised |-> TRUE, error |-> "completion failed",
          calls |-> <<Call("complete", Prompt(query, context), FALSE)>>]
    ELSE IF env.fault = "malformed"
    THEN [answer |-> Str("", <<>>), raised |-> TRUE, error |-> "list index out of range",
          calls |-> <<Call("complete", Prompt(query, context), TRUE)>>]
    ELSE \* line 145: the completion's text, as the service returned it
         [answer |-> env.completion, raised |-> FALSE, error |-> "",
          calls |-> <<Returned("complete", Prompt(query, context), env.completion)>>]

(***************************************************************************)
(* rag_pipeline.py: RAGPipeline                                            *)
(***************************************************************************)
\* str.replace(".", "_")
ReplaceDots(netloc) == [i \in 1..Len(netloc) |-> IF netloc[i] = "." THEN "_" ELSE netloc[i]]

\* lines 74-75
ExtractWebsiteName(url) == ReplaceDots(url.netloc)

\* one step of a pipeline operation: the component method called, what it was
\* given, what it returned and whether it returned at all
Step(fn, arg, ret, ok) == [fn |-> fn, arg |-> arg, ret |-> ret, ok |-> ok]

\* lines 93-112: [initialized, website_url, store, raised, error, steps, calls]
Initialize(pipeline, website_url_arg, env) ==
    LET website_name == ExtractWebsiteName(website_url_arg)
        created == CreateCollection(pipeline.store, website_name, env.fault)
        step1 == <<Step("create_collection", website_name, <<>>, ~created.raised)>>
    IN IF created.raised
       THEN [initialized |-> pipeline.initialized, website_url |-> website_url_arg,
             store |-> created.store, raised |-> TRUE, error |-> created.error,
             steps |-> step1, calls |-> created.calls]
       ELSE LET crawled == CrawlWebsite(website_url_arg, env.crawl)
                step2 == Append(step1, Step("crawl_website", website_url_arg,
                                            crawled.documents, ~crawled.raised))
            IN IF crawled.raised
               THEN [initialized |-> pipeline.initialized, website_url |-> website_url_arg,
                     store |-> created.store, raised |-> TRUE, error |-> "crawl failed",
                     steps |-> step2, calls |-> created.calls \o crawled.calls]
               ELSE LET embedded == EmbedDocuments(created.store, crawled.documents, env.fault)
                        step3 == Append(step2, Step("embed_documents", crawled.documents,
                                                    <<>>, ~embedded.raised))
                    IN [initialized |-> IF embedded.raised THEN pipeline.initialized
                                        ELSE TRUE,
                        website_url |-> website_url_arg,
                        store |-> embedded.store,
                        raised |-> embedded.raised, error |-> embedded.error,
                        steps |-> step3,
                        calls |-> created.calls \o crawled.calls \o embedded.calls]

\* line 134
PleaseInitialize == Str("Please initialize the RAG pipeline with a website URL first.", <<>>)

\* line 159: f"An error occurred: {str(e)}"
ErrorSummary(e) == Str("An error occurred: ", <<e>>)

Response(answer, context, success) == [answer |-> answer, context |-> context, success |-> success]

\* search's default k (vector_store.py line 137)
DefaultK == 8

\* variant: the exception leaves answer_question
Propagated(error, steps, calls) ==
    [response |-> Response(Str("", <<>>), NoContext, FALSE),
     raised |-> TRUE, steps |-> steps, calls |-> calls]

\* lines 155-162: whatever search, format_context or get_answer raised is caught
Caught(error, steps, calls) ==
    [response |-> Response(ErrorSummary(error), NoContext, FALSE),
     raised |-> FALSE, steps |-> steps, calls |-> calls]

\* variant: the response carries only the results the formatter kept
AnsweredWithFormattedContext(answer, search_results, steps, calls) ==
    [response |-> Response(answer, SomeContext(FilterByThreshold(search_results)), TRUE),
     raised |-> FALSE, steps |-> steps, calls |-> calls]

\* lines 150-154
Answered(answer, search_results, steps, calls) ==
    [response |-> Response(answer, SomeContext(search_results), TRUE),
     raised |-> FALSE, steps |-> steps, calls |-> calls]

\* lines 139-162: the try block
AnswerWhenReady(pipeline, query, env) ==
    LET searched == Search(pipeline.store, query, DefaultK, env)
        step1 == <<Step("search", query, searched.documents, ~searched.raised)>>
    IN IF searched.raised
       THEN Caught(searched.error, step1, searched.calls)
       ELSE LET search_results == searched.documents
                context == FormatContext(search_results)
                step2 == Append(step1, Step("format_context", search_results, context, TRUE))
                answered == GetAnswer(query, context, env)
                step3 == Append(step2, Step("get_answer", [query |-> query, context |-> context],
                                            answered.answer, ~answered.raised))
            IN IF answered.raised
               THEN Caught(answered.error, step3, searched.calls \o answered.calls)
               ELSE Answered(answered.answer, search_results, step3,
                             searched.calls \o answered.calls)

\* variant: the initialized flag is not consulted
AnswerWithoutInitCheck(pipeline, query, env) == AnswerWhenReady(pipeline, query, env)

\* lines 131-162: [response, raised, steps, calls]
AnswerQuestion(pipeline, query, env) ==
    IF ~pipeline.initialized
    THEN \* lines 132-137
         [response |-> Response(PleaseInitialize, NoContext, FALSE),
          raised |-> FALSE, steps |-> <<>>, calls |-> <<>>]
    ELSE AnswerWhenReady(pipeline, query, env)

(***************************************************************************)
(* The environment's choices for one call.                                 *)
(***************************************************************************)
\* the embedding geometries a query may meet: profile 0 puts every record far away
MaxProfile == 2

\* the number of linked pages in the largest batch given to embed_documents on its own
BatchLinks == 6

Queries == {"q1", "q2"}
Completions == { Str("answer-1", <<>>), Str("answer-2", <<>>) }

\* the sites the pipeline is initialized for
PipelineUrls == { Url("https", HostLower, "/"), Url("https", HostOther, "/") }

\* the crawls explored through the pipeline: the seed fetch raises, the mapping
\* raises, or it lists at most one page, whose fetch may raise
PipelineCrawlEnvs(base_url) ==
    { CrawlEnv("raise", "ok", <<>>, {}),
      CrawlEnv("ok", "raise", <<>>, {}),
      CrawlEnv("ok", "ok", <<>>, {}),
      CrawlEnv("ok", "ok", <<SitePage(base_url, 1)>>, {}),
      CrawlEnv("ok", "ok", <<SitePage(base_url, 1)>>, {1}) }

\* the external call of the vector store that raises during one operation, if any;
\* "open" is get_collection or create_collection, whichever create_collection calls
StoreFaults == {"none", "list_collections", "open", "encode", "add"}

\* a fault before the crawl makes the crawl's environment irrelevant
InitializeEnvs(base_url) ==
    [crawl : { CrawlEnv("ok", "raise", <<>>, {}) }, fault : {"list_collections", "open"}]
    \cup [crawl : PipelineCrawlEnvs(base_url), fault : {"none", "encode", "add"}]

AnswerEnv(fault, profile, completion) ==
    [fault |-> fault, profile |-> profile, completion |-> completion]

\* a fault in search makes the geometry and the completion irrelevant, a fault
\* in the completion makes its text irrelevant
AnswerEnvs ==
    { AnswerEnv(f, 0, Str("answer-1", <<>>)) : f \in {"encode", "query"} }
    \cup { AnswerEnv(f, p, Str("answer-1", <<>>)) : f \in {"complete", "malformed"}, p \in 0..MaxProfile }
    \cup { AnswerEnv("none", p, c) : p \in 0..MaxProfile, c \in Completions }

\* the largest profile of distances explored for search on its own
MaxSearchProfile == 4

\* the environments of search on its own: a fault, or one of the profiles
SearchEnvs ==
    { AnswerEnv(f, 0, Str("answer-1", <<>>)) : f \in {"encode", "query"} }
    \cup { AnswerEnv("none", p, Str("answer-1", <<>>)) : p \in 0..MaxSearchProfile }

WebsiteNames == { ExtractWebsiteName(u) : u \in PipelineUrls }

\* the batches given to embed_documents on its own: no document, the seed
\* page's, and a crawl of more pages than search returns results
DocumentBatches ==
    { CrawlWebsite(u, e).documents :
        u \in { Url("https", HostLower, "/") },
        e \in { CrawlEnv("raise", "ok", <<>>, {}),
                CrawlEnv("ok", "raise", <<>>, {}),
                CrawlEnv("ok", "ok", [j \in 1..BatchLinks |-> SitePage(Url("https", HostLower, "/"), j)], {}) } }

(***************************************************************************)
(* The state machine.                                                      *)
(***************************************************************************)
NoResponse == Response(Str("", <<>>), NoContext, FALSE)

\* before: the pipeline's initialized flag when the call was made
Last(op, url, query, raised, error, documents, response, steps, calls) ==
    [op |-> op, url |-> url, query |-> query, before |-> initialized,
     raised |-> raised, error |-> error,
     documents |-> documents, response |-> response, steps |-> steps, calls |-> calls]

\* what the index directory holds when the process starts: nothing, or a
\* collection an earlier process left there
PersistedIndexes ==
    { <<>>,
      [n \in {ExtractWebsiteName(Url("https", HostLower, "/"))} |->
          EmbedDocuments(Store(n, [m \in {n} |-> <<>>]),
                         CrawlWebsite(Url("https", HostLower, "/"),
                                      CrawlEnv("ok", "ok", <<>>, {})).documents,
                         "none").store.client[n]] }

\* RAGPipeline.__init__ (rag_pipeline.py lines 53-59), VectorStore.__init__ (lines 58-59)
Init ==
    /\ initialized = FALSE
    /\ website_url = NoUrl
    /\ collection = NoCollection
    /\ client \in PersistedIndexes
    /\ last = Last("none", NoUrl, "", FALSE, "", <<>>, NoResponse, <<>>, <<>>)

Pipeline == [initialized |-> initialized, store |-> Store(collection, client)]

\* pipeline.initialize(url), as app.py line 157 calls it
InitializeCall ==
    \E url \in PipelineUrls : \E env \in InitializeEnvs(url) :
        LET r == Initialize(Pipeline, url, env)
        IN /\ initialized' = r.initialized
           /\ website_url' = r.website_url
           /\ collection' = r.store.collection
           /\ client' = r.store.client
           /\ last' = Last("initialize", url, "", r.raised, r.error, <<>>, NoResponse,
                           r.steps, r.calls)

\* variant: a failed answer marks the pipeline as not initialized
PipelineResetOnFailure(pipeline, r) ==
    IF r.response.success THEN pipeline ELSE [pipeline EXCEPT !.initialized = FALSE]

\* the pipeline after answer_question returned r: the method assigns no attribute
\* of the pipeline, and search only reads the selected collection
PipelineAfterAnswer(pipeline, r) == pipeline

\* pipeline.answer_question(prompt), as app.py line 213 calls it
AnswerQuestionCall ==
    \E query \in Queries : \E env \in AnswerEnvs :
        LET r == AnswerQuestion(Pipeline, query, env)
            after == PipelineAfterAnswer(Pipeline, r)
        IN /\ initialized' = after.initialized
           /\ collection' = after.store.collection
           /\ client' = after.store.client
           /\ last' = Last("answer_question", NoUrl, query, r.raised, "", <<>>, r.response,
                           r.steps, r.calls)
           /\ UNCHANGED website_url

Next == InitializeCall \/ AnswerQuestionCall

Spec == Init /\ [][Next]_vars

(***************************************************************************)
(* The crawler on its own.                                                 *)
(***************************************************************************)
CrawlSeeds == { Url("https", HostLower, "/"), Url("http", HostLower, "/p") }

CrawlWebsiteCall ==
    \E url \in CrawlSeeds : \E env \in CrawlEnvs(url) :
        LET r == CrawlWebsite(url, env)
        IN /\ last' = Last("crawl_website", url, "", r.raised, "", r.documents, NoResponse,
                           <<>>, r.calls)
           /\ UNCHANGED <<initialized, website_url, collection, client>>

NextCrawl == CrawlWebsiteCall

SpecCrawl == Init /\ [][NextCrawl]_vars

(***************************************************************************)
(* The vector store on its own.                                            *)
(***************************************************************************)
CreateCollectionCall ==
    \E website_name \in WebsiteNames : \E fault \in StoreFaults :
        LET r == CreateCollection(Store(collection, client), website_name, fault)
        IN /\ collection' = r.store.collection
           /\ client' = r.store.client
           /\ last' = Last("create_collection", NoUrl, "", r.raised, r.error, <<>>, NoResponse,
                           <<Step("create_collection", website_name, <<>>, ~r.raised)>>, r.calls)
           /\ UNCHANGED <<initialized, website_url>>

EmbedDocumentsCall ==
    \E documents \in DocumentBatches : \E fault \in StoreFaults :
        LET r == EmbedDocuments(Store(collection, client), documents, fault)
        IN /\ collection' = r.store.collection
           /\ client' = r.store.client
           /\ last' = Last("embed_documents", NoUrl, "", r.raised, r.error, documents, NoResponse,
                           <<>>, r.calls)
           /\ UNCHANGED <<initialized, website_url>>

SearchCall ==
    \E query \in Queries : \E env \in SearchEnvs :
        LET r == Search(Store(collection, client), query, DefaultK, env)
        IN /\ last' = Last("search", NoUrl, query, r.raised, r.error, r.documents, NoResponse,
                           <<>>, r.calls)
           /\ UNCHANGED <<initialized, website_url, collection, client>>

NextStore == CreateCollectionCall \/ EmbedDocumentsCall \/ SearchCall

SpecStore == Init /\ [][NextStore]_vars

(***************************************************************************)
(* format_context on its own: it is given any list of results, in any      *)
(* order, with any similarities.                                           *)
(***************************************************************************)
\* the longest list of results format_context is given
MaxResults == 14

\* chunks to build results from: those of a crawl of the modelled site
ResultDocs ==
    CrawlWebsite(Url("https", HostLower, "/"),
                 CrawlEnv("ok", "ok",
                          [j \in 1..MaxResults |-> SitePage(Url("https", HostLower, "/"), j)],
                          {})).documents

Result(doc, similarity) ==
    [page_content |-> doc.page_content, metadata |-> doc.metadata, similarity |-> similarity]

\* the list of the spec's example: similarities 0.9, 0.7, 0.4
ExampleResults ==
    <<Result(ResultDocs[1], 9), Result(ResultDocs[2], 7), Result(ResultDocs[3], 4)>>

\* lists of n results whose similarities follow one of a few patterns, not sorted
ResultLists ==
    {ExampleResults} \cup
    { [i \in 1..n |-> Result(ResultDocs[i], One - DistTable[((i * step + shift) % 7) + 1])] :
          n \in 0..MaxResults, step \in 1..3, shift \in 0..6 }

FormatContextCall ==
    \E results \in ResultLists :
        /\ last' = Last("format_context", NoUrl, "", FALSE, "", results, NoResponse,
                        <<Step("format_context", results, FormatContext(results), TRUE)>>, <<>>)
        /\ UNCHANGED <<initialized, website_url, collection, client>>

NextFormat == FormatContextCall

SpecFormat == Init /\ [][NextFormat]_vars

(***************************************************************************)
(* extract_website_name on its own.                                        *)
(***************************************************************************)
\* two hostnames, each written in every mix of upper and lower case
IdentHosts ==
    { <<first, ".", last_char>> : first \in {"a", "A"}, last_char \in {"c", "C"} } \cup
    { <<first, ".", last_char>> : first \in {"b", "B"}, last_char \in {"c", "C"} }

IdentUrls ==
    { UrlWithQuery(scheme, netloc, path, query) :
          scheme \in {"http", "https"}, netloc \in IdentHosts,
          path \in Paths, query \in {"", "x=1"} }

ExtractWebsiteNameCall ==
    \E url \in IdentUrls :
        /\ last' = Last("extract_website_name", url, "", FALSE, "", <<>>, NoResponse,
                        <<Step("extract_website_name", url, ExtractWebsiteName(url), TRUE)>>,
                        <<>>)
        /\ UNCHANGED <<initialized, website_url, collection, client>>

NextIdent == ExtractWebsiteNameCall

SpecIdent == Init /\ [][NextIdent]_vars

(***************************************************************************)
(* Properties of answer_question (checked under Spec).                     *)
(***************************************************************************)
AnsweredLast == last.op = "answer_question"

FailedSteps == { i \in 1..Len(last.steps) : ~last.steps[i].ok }

\* C1: while the pipeline is not initialized, answer_question returns the
\* "please initialize" failure (success false, no context), does not raise, and
\* calls neither search, format_context nor get_answer (nor anything external).
C1_UninitializedAnswer ==
    (AnsweredLast /\ ~initialized) =>
        /\ ~last.raised
        /\ last.response.success = FALSE
        /\ last.response.context = NoContext
        /\ last.response.answer =
               Str("Please initialize the RAG pipeline with a website URL first.", <<>>)
        /\ last.steps = <<>>
        /\ last.calls = <<>>

\* an answer_question on a pipeline that is not initialized although a failed
\* initialize has already selected a collection
C1_Witness ==
    AnsweredLast /\ ~initialized /\ collection # NoCollection /\ website_url # NoUrl

\* C2: while the pipeline is Ready, answer_question never raises; when one of
\* its steps raised, it returns success false, no context, and an error summary.
C2_ReadyAnswerNeverRaises ==
    (AnsweredLast /\ initialized) =>
        /\ ~last.raised
        /\ (FailedSteps # {}) =>
              /\ last.response.success = FALSE
              /\ last.response.context = NoContext
              /\ last.response.answer.text = "An error occurred: "
              /\ Len(last.response.answer.parts) = 1

\* the completion service raised after search and format_context had returned
C2_Witness ==
    /\ AnsweredLast /\ initialized
    /\ Len(last.steps) = 3
    /\ last.steps[3].fn = "get_answer" /\ ~last.steps[3].ok
    /\ last.response.success = FALSE

\* C3: while Ready and when no step fails, answer_question calls search on the
\* query, format_context on what search returned, get_answer on the query and
\* that formatted context, and returns success true, the completion's text
\* unmodified, and as context the sequence search returned; and no response
\* carries a context unless success is true.
C3_ReadyAnswerSequence ==
    AnsweredLast =>
        /\ (~last.response.context.none) => last.response.success
        /\ (initialized /\ FailedSteps = {}) =>
              /\ Len(last.steps) = 3
              /\ last.steps[1].fn = "search"
              /\ last.steps[1].arg = last.query
              /\ last.steps[2].fn = "format_context"
              /\ last.steps[2].arg = last.steps[1].ret
              /\ last.steps[3].fn = "get_answer"
              /\ last.steps[3].arg = [query |-> last.query, context |-> last.steps[2].ret]
              /\ last.response.success
              /\ last.calls[Len(last.calls)].fn = "complete"
              /\ last.response.answer = last.calls[Len(last.calls)].ret
              /\ last.response.context = SomeContext(last.steps[1].ret)

\* a successful answer whose context holds a result below the threshold and one above it
C3_Witness ==
    /\ AnsweredLast /\ initialized /\ last.response.success
    /\ \E i, j \in 1..Len(last.response.context.value) :
          /\ last.response.context.value[i].similarity < SIMILARITY_THRESHOLD
          /\ last.response.context.value[j].similarity >= SIMILARITY_THRESHOLD

(***************************************************************************)
(* Properties of initialize (checked under Spec).                          *)
(***************************************************************************)
InitializedLast == last.op = "initialize"

AllStepsReturned ==
    /\ Len(last.steps) = 3
    /\ \A i \in 1..3 : last.steps[i].ok
    /\ last.steps[1].fn = "create_collection"
    /\ last.steps[2].fn = "crawl_website"
    /\ last.steps[3].fn = "embed_documents"

\* C4: every initialize call either returns with the state Ready or raises with
\* the state Uninitialized: after a call that raised, initialized is false, and
\* initialized is true only after all three steps returned.
C4_InitializeAllOrNothing ==
    InitializedLast =>
        /\ last.raised => ~initialized
        /\ initialized => (~last.raised /\ AllStepsReturned)

SeedFetchRaised ==
    /\ Len(last.calls) >= 1
    /\ \E i \in 1..Len(last.calls) :
          /\ last.calls[i].fn = "scrape_url"
          /\ \A h \in 1..(i - 1) : last.calls[h].fn # "scrape_url"
          /\ ~last.calls[i].ok

\* C5: when the seed page fetch throws during initialize on an Uninitialized
\* pipeline, initialize raises and the state remains Uninitialized (so that a
\* following answer_question returns the "please initialize" failure).
C5_SeedFailurePropagates ==
    (InitializedLast /\ ~last.before /\ SeedFetchRaised) =>
        /\ last.raised
        /\ ~initialized

(***************************************************************************)
(* Properties of crawl_website (checked under SpecCrawl).                  *)
(***************************************************************************)
CrawledLast == last.op = "crawl_website"

\* the chunks the crawl service and the splitter give for a page, with their page
PageChunks(url) ==
    LET page == ScrapeResult(url)
        chunks == IF page.has_markdown THEN SplitText(page.markdown) ELSE <<>>
    IN [i \in 1..Len(chunks) |-> [source |-> url, content |-> chunks[i]]]

\* the chunks crawl_website returned, with their page
Produced ==
    [i \in 1..Len(last.documents) |->
        [source |-> last.documents[i].metadata.source,
         content |-> last.documents[i].page_content]]

SeedFetched ==
    /\ Len(last.calls) >= 1
    /\ last.calls[1].fn = "scrape_url"
    /\ last.calls[1].arg = last.url
    /\ last.calls[1].ok

Mapped == Len(last.calls) >= 2 /\ last.calls[2].fn = "map_url"

\* C6: when the site-mapping call throws after the seed fetch succeeded, the
\* crawl returns exactly the seed page's chunks, in order, and does not raise.
C6_DiscoveryFailureKeepsSeed ==
    (CrawledLast /\ SeedFetched /\ Mapped /\ ~last.calls[2].ok) =>
        /\ ~last.raised
        /\ Len(last.calls) = 2
        /\ Produced = PageChunks(last.url)

\* the mapping raised after a seed page of two chunks was fetched
C6_Witness ==
    /\ CrawledLast /\ SeedFetched /\ Mapped /\ ~last.calls[2].ok
    /\ Len(last.documents) = 2

\* the chunks of the pages among links[j..n] whose fetch returned, in order
RECURSIVE FetchedChunks(_, _, _, _)
FetchedChunks(links, calls, j, n) ==
    IF j > n THEN <<>>
    ELSE (IF calls[2 + j].ok THEN PageChunks(links[j]) ELSE <<>>)
         \o FetchedChunks(links, calls, j + 1, n)

\* C7: a fetch failure on a discovered page never aborts the crawl: whichever
\* pages fail, the crawl fetches every listed page within the page bound, in
\* discovery order, and returns the seed page's chunks followed by the chunks of
\* exactly the pages whose fetch succeeded.
C7_PageFailureSkipped ==
    (CrawledLast /\ SeedFetched /\ Mapped /\ last.calls[2].ok) =>
        LET links == last.calls[2].ret
            n == Min(Len(links), MAX_PAGES_TO_CRAWL - 1)
        IN /\ ~last.raised
           /\ Len(last.calls) = 2 + n
           /\ \A j \in 1..n :
                 /\ last.calls[2 + j].fn = "scrape_url"
                 /\ last.calls[2 + j].arg = links[j]
           /\ Produced = PageChunks(last.url) \o FetchedChunks(links, last.calls, 1, n)

\* a page's fetch raised between two pages whose chunks are both in the result
C7_Witness ==
    /\ CrawledLast /\ SeedFetched /\ Mapped /\ last.calls[2].ok
    /\ \E j \in 1..(Len(last.calls) - 2) :
          /\ ~last.calls[2 + j].ok
          /\ \E a, b \in 1..Len(last.documents) :
                /\ last.documents[a].metadata.page_index \in 1..(j - 1)
                /\ last.documents[b].metadata.page_index > j

\* C8: when the seed page fetch itself throws, the crawl returns an empty
\* sequence without raising, and makes no mapping call and no further fetch.
C8_SeedFailureReturnsEmpty ==
    (CrawledLast /\ last.calls[1].fn = "scrape_url" /\ ~last.calls[1].ok) =>
        /\ ~last.raised
        /\ last.documents = <<>>
        /\ Len(last.calls) = 1

C8_Witness ==
    /\ CrawledLast
    /\ last.calls = <<Call("scrape_url", last.url, FALSE)>>
    /\ last.documents = <<>>

(***************************************************************************)
(* Properties of the vector store (checked under SpecStore).               *)
(***************************************************************************)
\* C9: embed_documents and search, called while no collection is selected, raise
\* the "collection not initialized" error and make no embedding call and no
\* index read or write.
C9_NoCollectionSelected ==
    [][(collection = NoCollection /\ last'.op \in {"embed_documents", "search"}) =>
          /\ last'.raised
          /\ last'.error = "Collection not initialized. Call create_collection first."
          /\ last'.calls = <<>>
          /\ client' = client
          /\ collection' = collection]_vars

\* embed_documents given documents while no collection is selected, the index
\* holding a collection of an earlier run
C9_Witness ==
    /\ last.op = "embed_documents"
    /\ collection = NoCollection
    /\ last.documents # <<>>
    /\ DOMAIN client # {}
    /\ last.raised

\* an initialize of url during which no call to the index or the embedding model fails
InitializeAgain(url, crawl_env) ==
    Initialize([initialized |-> initialized, store |-> Store(collection, client)],
               url, [crawl |-> crawl_env, fault |-> "none"])

\* C10: create_collection is idempotent.  A call that returns selects the
\* collection of that name, adds that name to the index if it was not there and
\* nothing else, and leaves every existing collection's records as they were; for
\* an existing name it makes no create call; it raises only when a call to the
\* index failed, never because the collection exists.  An initialize of a
\* hostname whose collection exists selects that same collection and does not raise.
C10_CreateCollectionIdempotent ==
    /\ [](\A url \in PipelineUrls : \A crawl_env \in PipelineCrawlEnvs(url) :
             ExtractWebsiteName(url) \in DOMAIN client =>
                 LET r == InitializeAgain(url, crawl_env)
                 IN /\ ~r.raised
                    /\ r.store.collection = ExtractWebsiteName(url)
                    /\ DOMAIN r.store.client = DOMAIN client)
    /\ [][last'.op = "create_collection" =>
             LET name == last'.steps[1].arg
             IN /\ last'.raised =>
                     /\ \E i \in 1..Len(last'.calls) : ~last'.calls[i].ok
                     /\ last'.error \in {"list_collections failed", "get_collection failed",
                                         "create_collection failed"}
                     /\ client' = client
                     /\ collection' = collection
                /\ ~last'.raised =>
                     /\ collection' = name
                     /\ DOMAIN client' = DOMAIN client \cup {name}
                     /\ \A n \in DOMAIN client : client'[n] = client[n]
                     /\ name \notin DOMAIN client => client'[name] = <<>>
                /\ name \in DOMAIN client =>
                     \A i \in 1..Len(last'.calls) : last'.calls[i].fn # "create_collection"]_vars

\* create_collection returned for a name whose collection already held records
C10_Witness ==
    /\ last.op = "create_collection"
    /\ ~last.raised
    /\ last.calls[Len(last.calls)].fn = "get_collection"
    /\ client[collection] # <<>>
    /\ Cardinality(DOMAIN client) = 2

(***************************************************************************)
(* Re-initialization and the records of a collection.                      *)
(***************************************************************************)
\* create_collection found the collection in the index and opened it
CollectionExisted ==
    /\ Len(last.calls) >= 2
    /\ last.calls[2].fn = "get_collection"
    /\ last.calls[2].ok

\* C11: an initialize of a hostname whose collection already exists reuses that
\* collection and makes no crawl and no embed/store call (checked under Spec).
C11_ExistingCollectionNotRecrawled ==
    (InitializedLast /\ CollectionExisted) =>
        /\ collection = ExtractWebsiteName(last.url)
        /\ \A i \in 1..Len(last.steps) :
              last.steps[i].fn \notin {"crawl_website", "embed_documents"}
        /\ \A i \in 1..Len(last.calls) :
              last.calls[i].fn \notin {"scrape_url", "map_url", "encode", "add"}

Ids(records) == {records[i].id : i \in 1..Len(records)}

\* C12: record ids are unique within a collection and never reused for another
\* chunk: every embed_documents call that returns, given n chunks, has added n
\* records, under ids the collection did not hold (checked under SpecStore).
C12_FreshIdsEveryCall ==
    [][(last'.op = "embed_documents" /\ ~last'.raised) =>
          LET before == client[collection]
              after == client'[collection']
              n == Len(last'.documents)
          IN /\ Len(after) = Len(before) + n
             /\ SubSeq(after, 1, Len(before)) = before
             /\ Cardinality(Ids(after)) = Len(after)
             /\ \A i \in 1..n :
                   /\ after[Len(before) + i].document = last'.documents[i].page_content
                   /\ after[Len(before) + i].metadata = last'.documents[i].metadata]_vars

\* the chunks a collection's records hold, in storage order
Stored(records) ==
    [i \in 1..Len(records) |->
        [page_content |-> records[i].document, metadata |-> records[i].metadata]]

\* C13: re-indexing a site replaces its collection: after an initialize of a
\* hostname whose collection existed returns, the collection holds exactly the
\* records of the chunks of that initialize's crawl (checked under Spec).
C13_ReindexReplaces ==
    (InitializedLast /\ CollectionExisted /\ ~last.raised /\ Len(last.steps) = 3) =>
        Stored(client[collection]) = last.steps[2].ret

(***************************************************************************)
(* Properties of format_context.                                           *)
(***************************************************************************)
\* the positions of the results at or above the threshold
Survivors(results) ==
    {i \in 1..Len(results) : results[i].similarity >= SIMILARITY_THRESHOLD}

\* block is the rendering of result r, whatever its number
Renders(block, r) ==
    /\ block.title = r.metadata.title
    /\ block.source = r.metadata.source
    /\ block.content = r.page_content

FormattedLast ==
    /\ AnsweredLast
    /\ Len(last.steps) >= 2
    /\ last.steps[2].fn = "format_context"
    /\ last.steps[2].ok

\* C14: format_context returns exactly the "No relevant information found."
\* sentinel if and only if no result it was given is at or above the similarity
\* threshold (an empty input included); otherwise what it renders are the results
\* at or above the threshold, one exactly at the threshold included, and none
\* below it; and answer_question hands the sentinel to get_answer as the context
\* like any other, the answer being a success when the completion returns
\* (checked under Spec).
C14_SentinelIffNoSurvivor ==
    FormattedLast =>
        LET results == last.steps[2].arg
            context == last.steps[2].ret
        IN /\ (context = NoRelevantInformation) <=> (Survivors(results) = {})
           /\ (context # NoRelevantInformation) =>
                 /\ context.text = "\n"
                 /\ Len(context.parts) = Min(TOP_K_RESULTS, Cardinality(Survivors(results)))
                 /\ \A b \in 1..Len(context.parts) :
                       \E i \in Survivors(results) : Renders(context.parts[b], results[i])
                 /\ \A i \in 1..Len(results) :
                       (i \notin Survivors(results)) =>
                           \A b \in 1..Len(context.parts) : ~Renders(context.parts[b], results[i])
                 /\ (Cardinality(Survivors(results)) <= TOP_K_RESULTS) =>
                       \A i \in Survivors(results) :
                           \E b \in 1..Len(context.parts) : Renders(context.parts[b], results[i])
           /\ (context = NoRelevantInformation) =>
                 /\ Len(last.steps) = 3
                 /\ last.steps[3].fn = "get_answer"
                 /\ last.steps[3].arg = [query |-> last.query, context |-> NoRelevantInformation]
                 /\ ~last.raised
                 /\ last.steps[3].ok =>
                       /\ last.response.success
                       /\ last.response.context = SomeContext(results)

\* search returned results, all below the threshold; the sentinel went to
\* get_answer and the answer is a success
C14_Witness ==
    /\ FormattedLast
    /\ last.steps[2].arg # <<>>
    /\ last.steps[2].ret = NoRelevantInformation
    /\ Len(last.steps) = 3
    /\ last.steps[3].ok
    /\ last.response.success

\* result j comes before result i in the rendering: more similar, or as similar
\* and earlier in the input
Outranks(results, j, i) ==
    \/ results[j].similarity > results[i].similarity
    \/ results[j].similarity = results[i].similarity /\ j < i

\* the place of result i among the results at or above the threshold
Rank(results, i) ==
    Cardinality({j \in Survivors(results) : Outranks(results, j, i)}) + 1

\* C15: given n >= 1 results at or above the threshold, format_context renders
\* exactly the min(TOP_K_RESULTS, n) most similar of them, in descending order of
\* similarity, numbered from 1, results of equal similarity in the order they had
\* in the input (checked under SpecFormat).
C15_TopSurvivorsInOrder ==
    (last.op = "format_context" /\ Survivors(last.documents) # {}) =>
        LET results == last.documents
            context == last.steps[1].ret
        IN /\ context.text = "\n"
           /\ Len(context.parts) = Min(TOP_K_RESULTS, Cardinality(Survivors(results)))
           /\ \A i \in Survivors(results) :
                 Rank(results, i) <= TOP_K_RESULTS =>
                     context.parts[Rank(results, i)] =
                         [document |-> Rank(results, i),
                          title |-> results[i].metadata.title,
                          source |-> results[i].metadata.source,
                          content |-> results[i].page_content]

\* more results at or above the threshold than are rendered, given out of order,
\* two of equal similarity among those rendered and two across the cut
C15_Witness ==
    /\ last.op = "format_context"
    /\ Cardinality(Survivors(last.documents)) > TOP_K_RESULTS
    /\ \E i, j \in Survivors(last.documents) :
          i < j /\ last.documents[i].similarity < last.documents[j].similarity
    /\ \E i, j \in Survivors(last.documents) :
          /\ i < j
          /\ last.documents[i].similarity = last.documents[j].similarity
          /\ Rank(last.documents, j) <= TOP_K_RESULTS
    /\ \E i, j \in Survivors(last.documents) :
          /\ last.documents[i].similarity = last.documents[j].similarity
          /\ Rank(last.documents, i) <= TOP_K_RESULTS
          /\ Rank(last.documents, j) > TOP_K_RESULTS

(***************************************************************************)
(* Properties of extract_website_name (checked under SpecIdent).           *)
(***************************************************************************)
LowerCase(ch) ==
    CASE ch = "A" -> "a"
      [] ch = "B" -> "b"
      [] ch = "C" -> "c"
      [] OTHER -> ch

\* the host a URL names: host names do not distinguish letter case
Hostname(url) == [i \in 1..Len(url.netloc) |-> LowerCase(url.netloc[i])]

\* C16: the site identifier is a function of the hostname alone: two URLs of
\* the same hostname, whatever their scheme, path, query or the letter case of
\* the host, give the same identifier.
C16_IdentifierOfHostnameAlone ==
    [][(/\ last.op = "extract_website_name"
        /\ last'.op = "extract_website_name"
        /\ Hostname(last.url) = Hostname(last'.url)) =>
            last'.steps[1].ret = last.steps[1].ret]_vars

(***************************************************************************)
(* The order of the steps of initialize (checked under Spec).              *)
(***************************************************************************)
\* the step of initialize an external call belongs to
Phase(fn) ==
    CASE fn \in {"list_collections", "get_collection", "create_collection"} -> 1
      [] fn \in {"scrape_url", "map_url"} -> 2
      [] fn \in {"encode", "add"} -> 3

\* C17: every initialize runs create_collection, then crawl_website, then
\* embed_documents on what the crawl returned, each as soon as the one before
\* returned, and sets initialized once the last has returned.  When the crawl
\* returns no chunk, embed_documents is still called; it adds nothing to the
\* index and, the embedding call returning, does not raise: initialize ends Ready.
C17_InitializeStepOrder ==
    InitializedLast =>
        /\ Len(last.steps) \in 1..3
        /\ last.steps[1].fn = "create_collection"
        /\ last.steps[1].arg = ExtractWebsiteName(last.url)
        /\ \A i \in 2..Len(last.steps) : last.steps[i - 1].ok
        /\ last.steps[1].ok =>
              /\ Len(last.steps) >= 2
              /\ last.steps[2].fn = "crawl_website"
              /\ last.steps[2].arg = last.url
        /\ (Len(last.steps) >= 2 /\ last.steps[2].ok) =>
              /\ Len(last.steps) = 3
              /\ last.steps[3].fn = "embed_documents"
              /\ last.steps[3].arg = last.steps[2].ret
        /\ \A i, j \in 1..Len(last.calls) :
              i < j => Phase(last.calls[i].fn) <= Phase(last.calls[j].fn)
        /\ AllStepsReturned => (initialized /\ ~last.raised)
        /\ (initialized /\ ~last.before) => AllStepsReturned
        /\ (Len(last.steps) >= 2 /\ last.steps[2].ok /\ last.steps[2].ret = <<>>) =>
              /\ \A i \in 1..Len(last.calls) : last.calls[i].fn # "add"
              /\ \/ last.steps[3].ok /\ initialized /\ ~last.raised
                 \/ \E i \in 1..Len(last.calls) :
                       last.calls[i].fn = "encode" /\ ~last.calls[i].ok

\* an initialize on a fresh pipeline whose crawl returned nothing: embed_documents
\* was called on the empty list, the new collection holds no record, the state is Ready
C17_Witness ==
    /\ InitializedLast /\ ~last.before
    /\ Len(last.steps) = 3
    /\ last.steps[2].ret = <<>>
    /\ last.steps[3].fn = "embed_documents" /\ last.steps[3].ok
    /\ client[collection] = <<>>
    /\ initialized /\ ~last.raised

(***************************************************************************)
(* The chunks of a crawl (checked under SpecCrawl).                        *)
(***************************************************************************)
\* C18: in the sequence a crawl returns no two chunks have the same source URL
\* and the same chunk_index, whatever list of URLs the site-mapping call
\* returned, one holding the seed URL or one URL twice included.
C18_SourceAndChunkIndexUnique ==
    CrawledLast =>
        \A a, b \in 1..Len(last.documents) :
            (/\ last.documents[a].metadata.source = last.documents[b].metadata.source
             /\ last.documents[a].metadata.chunk_index = last.documents[b].metadata.chunk_index)
                => a = b

ScrapeCalls == {i \in 1..Len(last.calls) : last.calls[i].fn = "scrape_url"}

\* C19: a crawl fetches at most MAX_PAGES_TO_CRAWL pages, the seed page
\* included, however many URLs the site-mapping call returned; the chunks of the
\* seed page carry page_index 0 and those of the j-th URL of the mapping carry
\* page_index j; within each page chunk_index counts from 0.
C19_PageBoundAndIndexes ==
    CrawledLast =>
        /\ Cardinality(ScrapeCalls) <= MAX_PAGES_TO_CRAWL
        /\ \A i \in 1..Len(last.documents) :
              LET doc == last.documents[i]
                  j == doc.metadata.page_index
              IN /\ j \in 0..(MAX_PAGES_TO_CRAWL - 1)
                 /\ (j = 0) => doc.metadata.source = last.url
                 /\ (j >= 1) =>
                       /\ Mapped /\ last.calls[2].ok
                       /\ j <= Len(last.calls[2].ret)
                       /\ doc.metadata.source = last.calls[2].ret[j]
                       /\ last.calls[2 + j].arg = last.calls[2].ret[j]
                       /\ last.calls[2 + j].ok
                 /\ doc.metadata.chunk_index =
                       IF i > 1 /\ last.documents[i - 1].metadata.page_index = j
                       THEN last.documents[i - 1].metadata.chunk_index + 1
                       ELSE 0
                 /\ i > 1 => last.documents[i - 1].metadata.page_index <= j
                 /\ doc.page_content =
                       PageChunks(doc.metadata.source)[doc.metadata.chunk_index + 1].content

\* the mapping returned more URLs than the bound allows: the seed and the first
\* MAX_PAGES_TO_CRAWL - 1 of them were fetched, and the last of these gave chunks
C19_Witness ==
    /\ CrawledLast /\ Mapped /\ last.calls[2].ok
    /\ Len(last.calls[2].ret) > MAX_PAGES_TO_CRAWL - 1
    /\ Cardinality(ScrapeCalls) = MAX_PAGES_TO_CRAWL
    /\ \E i \in 1..Len(last.documents) :
          /\ last.documents[i].metadata.page_index = MAX_PAGES_TO_CRAWL - 1
          /\ last.documents[i].metadata.chunk_index = 1

(***************************************************************************)
(* Properties of search (checked under SpecStore).                         *)
(***************************************************************************)
SearchedLast ==
    /\ last.op = "search"
    /\ ~last.raised
    /\ Len(last.calls) = 2
    /\ last.calls[2].fn = "query"

\* C20: search(query, k) returns one result for each record the index returned,
\* at most k of them, in the order the index gave them, each with similarity
\* 1 - distance; a result below the threshold, one of negative similarity
\* included, is returned like the others and the order is not changed.
C20_SearchReturnsIndexResults ==
    (last.op = "search" /\ ~last.raised) =>
        /\ SearchedLast
        /\ LET k == last.calls[2].arg
               returned == last.calls[2].ret
           IN /\ Len(last.documents) = Len(returned.documents[1])
              /\ Len(last.documents) = Min(k, Len(client[collection]))
              /\ \A i \in 1..Len(last.documents) :
                    last.documents[i] =
                        [page_content |-> returned.documents[1][i],
                         metadata |-> returned.metadatas[1][i],
                         similarity |-> One - returned.distances[1][i]]

\* the index returned a record at a distance above 1 after a nearer one that is
\* itself below the threshold: both are in the result, the second with a
\* negative similarity
C20_Witness ==
    /\ SearchedLast
    /\ \E i, j \in 1..Len(last.documents) :
          /\ i < j
          /\ last.documents[i].similarity \in 0..(SIMILARITY_THRESHOLD - 1)
          /\ last.documents[j].similarity < 0

CollectionCreated ==
    /\ Len(last.calls) >= 2
    /\ last.calls[2].fn = "create_collection"
    /\ last.calls[2].ok

\* C22: after any sequence of initialize calls, for one site or several, some
\* returning and some raising, whenever initialized is true the selected
\* collection is the one named by the identifier of website_url, and an
\* initialize that completed has stored that site's chunks into it: in
\* particular a collection made by the initialize just finished is the selected
\* one of a Ready pipeline only if that initialize completed.
C22_ReadyMeansIndexedSite ==
    initialized =>
        /\ collection = ExtractWebsiteName(website_url)
        /\ (InitializedLast /\ CollectionCreated) => (~last.raised /\ AllStepsReturned)

====
